---- MODULE Spec2Model ----
(***************************************************************************)
(* The API router of the portal (api/index.ts): the version gate, the      *)
(* authentication / scope / organization gates in front of                 *)
(* POST /:org/repos, the repository creation handler with its telemetry,   *)
(* the not-found middleware and the terminal JSON error handler.           *)
(*                                                                         *)
(* One request travels through the Express chain.  Strings the code        *)
(* inspects character by character (paths, api-version values, names of    *)
(* organizations) are sequences of one-character strings, so toLowerCase   *)
(* and startsWith are computed, not assumed.  Requests whose path lies     *)
(* under the /webhook, /people, /extension or /news mounts are handed to   *)
(* sub-routers that are not part of this development and are not drawn.    *)
(***************************************************************************)
EXTENDS Integers, Sequences, FiniteSets, TLC

(* ---------------------------------------------------------------------- *)
(* Bounds                                                                  *)
(* ---------------------------------------------------------------------- *)
\* largest number of payload keys a header map or a body map carries
MaxKeys == 1
\* requests in front of the administration gate at the same time
NumAdminRequests == 2
\* requests in the API router at the same time
NumInFlight == 2

(* ---------------------------------------------------------------------- *)
(* Strings                                                                 *)
(* ---------------------------------------------------------------------- *)
UpperChars == <<"A","B","C","D","E","F","G","H","I","J","K","L","M",
                "N","O","P","Q","R","S","T","U","V","W","X","Y","Z">>
LowerChars == <<"a","b","c","d","e","f","g","h","i","j","k","l","m",
                "n","o","p","q","r","s","t","u","v","w","x","y","z">>

toLowerChar(c) ==
    IF \E i \in DOMAIN UpperChars : UpperChars[i] = c
    THEN LowerChars[CHOOSE i \in DOMAIN UpperChars : UpperChars[i] = c]
    ELSE c

\* String.prototype.toLowerCase
toLowerCase(s) == [i \in DOMAIN s |-> toLowerChar(s[i])]

\* String.prototype.startsWith
startsWith(s, p) == Len(s) >= Len(p) /\ SubSeq(s, 1, Len(p)) = p

\* Array.prototype.indexOf, zero based, -1 when absent
indexOf(list, x) ==
    IF \E i \in DOMAIN list : list[i] = x
    THEN (CHOOSE i \in DOMAIN list : list[i] = x /\ \A j \in 1..(i-1) : list[j] # x) - 1
    ELSE -1

(* ---------------------------------------------------------------------- *)
(* Process-wide configuration                                              *)
(* ---------------------------------------------------------------------- *)
hardcodedApiVersions ==
    << <<"2","0","1","9","-","1","0","-","0","1">>,
       <<"2","0","1","9","-","0","2","-","0","1">>,
       <<"2","0","1","7","-","0","9","-","0","1">>,
       <<"2","0","1","7","-","0","3","-","0","8">>,
       <<"2","0","1","6","-","1","2","-","0","1">> >>

\* the literal '2016-09-22_Preview' of the version gate
RetiredPreview ==
    <<"2","0","1","6","-","0","9","-","2","2","_","P","r","e","v","i","e","w">>

ClientPrefix == <<"/","c","l","i","e","n","t">>

(* ---------------------------------------------------------------------- *)
(* The requests drawn                                                      *)
(* ---------------------------------------------------------------------- *)
RetiredUpper ==
    <<"2","0","1","6","-","0","9","-","2","2","_","P","R","E","V","I","E","W">>
UnsupportedVersion == <<"2","0","2","0","-","0","1","-","0","1">>

Paths ==
    { <<"/","a","c","m","e","/","r","e","p","o","s">>,
      <<"/","g","h","o","s","t","/","R","e","p","o","s">>,
      <<"/","c","l","i","e","n","t","/","r","e","p","o","s">>,
      <<"/","C","l","i","e","n","t","/","x">>,
      <<"/","a","c","m","e">> }

Methods == {"GET", "POST"}

\* req.query['api-version']: missing, a string, or (a repeated parameter) an array
QueryValues ==
    { [kind |-> "none",   val |-> <<>>],
      [kind |-> "string", val |-> hardcodedApiVersions[1]],
      [kind |-> "string", val |-> RetiredPreview],
      [kind |-> "array",  val |-> hardcodedApiVersions[1]] }

HeaderVersions ==
    { hardcodedApiVersions[5], RetiredUpper, UnsupportedVersion }

PayloadKeys == {"access_token", "authorization", "name"}

\* every map over at most MaxKeys of the payload keys, all values v
MapsOf(v) ==
    UNION { [ks -> {v}] : ks \in { s \in SUBSET PayloadKeys : Cardinality(s) <= MaxKeys } }

HeaderMaps ==
    { h \in UNION { [ks -> {<<"h">>} \cup HeaderVersions] :
                     ks \in SUBSET (PayloadKeys \cup {"api-version"}) } :
        /\ Cardinality(DOMAIN h \ {"api-version"}) <= MaxKeys
        /\ \A k \in DOMAIN h : (k = "api-version") <=> (h[k] \in HeaderVersions) }

BodyMaps == MapsOf(<<"b">>)

(* ---------------------------------------------------------------------- *)
(* Values                                                                  *)
(* ---------------------------------------------------------------------- *)
\* an error value: status 0 is an error that carries no status
Err(tag, status, names, inner, circular) ==
    [message |-> tag, status |-> status, names |-> names,
     inner |-> inner, circular |-> circular]

\* jsonError(message or error, status) of ../middleware
jsonError(tag, status, names, inner) == Err(tag, status, names, inner, FALSE)

\* the TypeError a JavaScript built-in throws
TypeError == Err("TypeError", 0, <<>>, "", FALSE)

NoIdentity ==
    [provider |-> "none", scopes |-> {},
     organizationScopes |-> [configured |-> FALSE, grants |-> {}]]

NoOrganization == [name |-> <<>>]

\* Object.assign(target, source)
ObjectAssign(target, source) ==
    [k \in (DOMAIN target) \cup (DOMAIN source) |->
        IF k \in DOMAIN source THEN source[k] ELSE target[k]]

\* delete obj[key]
Delete(obj, key) == [k \in (DOMAIN obj) \ {key} |-> obj[k]]

EmptyObject == [k \in {} |-> <<>>]

\* JSON.stringify(x) throws on a circular structure
CanStringify(x) == ~x.circular
JSONstringify(x) == [json |-> x]

(* ---------------------------------------------------------------------- *)
(* State                                                                   *)
(* ---------------------------------------------------------------------- *)
VARIABLES
    req,            \* the inbound request: method, path, query, headers, body
    pc,             \* the handler of the chain that runs next
    apiVersion,     \* req.apiVersion, <<>> while not attached
    accepts,        \* the providers that accept the credentials of the request
    attempted,      \* the providers tried, in order
    identity,       \* req.apiKeyToken
    organization,   \* req.organization
    grantChecks,    \* calls of hasOrganizationScope
    lookups,        \* calls of operations.getOrganization
    directory,      \* what the last of these calls did: "found" or "threw"
    created,        \* the payloads CreateRepository was called with, in order
    downstream,     \* what CreateRepository did
    events,         \* the telemetry events emitted, in order
    resStatus,      \* the status set on the response, 0 while unset
    response,       \* the response sent to the caller
    errors,         \* the errors passed to next(err), in order
    handled,        \* runs of JsonErrorHandler
    trace,          \* the gates that ran, in order
    admin,          \* the requests in front of the administration gate
    flight,         \* the requests that are in the router together
    shared          \* the module-level values of the router

vars == <<req, pc, apiVersion, accepts, attempted, identity, organization,
          grantChecks, lookups, directory, created, downstream, events,
          resStatus, response, errors, handled, trace, admin, flight, shared>>

NoResponse == [sent |-> FALSE, status |-> 0, kind |-> "none", body |-> "none"]
NoDownstream == [kind |-> "none", circular |-> FALSE, error |-> TypeError]

\* a request the administration gate has not been called for yet
AdminNew == [pc |-> "start", answer |-> "none", calls |-> <<>>]

AdminRequests == 1..NumAdminRequests

\* what is known of a request nobody has sent yet
NoOutcome == [kind |-> "none", status |-> 0, error |-> TypeError]
NoAnswers ==
    [authed |-> FALSE, acc |-> {}, scopes |-> {},
     organizationScopes |-> [configured |-> FALSE, grants |-> {}],
     known |-> FALSE, settled |-> FALSE, downstream |-> NoDownstream]
FlightNew ==
    [pc |-> "idle",
     req |-> [method |-> "POST", path |-> <<>>,
              query |-> [kind |-> "none", val |-> <<>>],
              headers |-> EmptyObject, body |-> EmptyObject],
     answers |-> NoAnswers,
     apiVersion |-> <<>>, organization |-> NoOrganization,
     created |-> <<>>, events |-> <<>>, outcome |-> NoOutcome]

InFlight == 1..NumInFlight

\* hardcodedApiVersions, the provider list of POST /:org/repos and whether a
\* customization hook is configured, as they are once the module is loaded
SharedAtStartup(hookConfigured) ==
    [versions |-> hardcodedApiVersions, providers |-> <<"aad", "apikey">>,
     hook |-> hookConfigured]

\* the administration gate and the concurrent requests at rest
OthersIdle ==
    /\ admin = [i \in AdminRequests |-> AdminNew]
    /\ flight = [i \in InFlight |-> FlightNew]
    /\ shared = SharedAtStartup(FALSE)

Init ==
    /\ OthersIdle
    /\ req \in [method : Methods, path : Paths, query : QueryValues,
                headers : HeaderMaps, body : BodyMaps]
    /\ pc = "versionGate"
    /\ apiVersion = <<>>
    /\ accepts = {}
    /\ attempted = <<>>
    /\ identity = NoIdentity
    /\ organization = NoOrganization
    /\ grantChecks = 0
    /\ lookups = 0
    /\ directory = "unasked"
    /\ created = <<>>
    /\ downstream = NoDownstream
    /\ events = <<>>
    /\ resStatus = 0
    /\ response = NoResponse
    /\ errors = <<>>
    /\ handled = 0
    /\ trace = <<>>

(* ---------------------------------------------------------------------- *)
(* Routing                                                                 *)
(* ---------------------------------------------------------------------- *)
\* a predicate that does not fold the case of the path
isClientRouteCaseSensitive(r) == startsWith(r.path, ClientPrefix)

isClientRoute(r) == startsWith(toLowerCase(r.path), ClientPrefix)

\* the positions of "/" in a path
Slashes(path) == { i \in DOMAIN path : path[i] = "/" }

RouteTails == { <<"/","r","e","p","o","s">>, <<"/","r","e","p","o","s","/">> }

\* Express matches '/:org/repos' ignoring case and a trailing slash
MatchesOrgRepos(path) ==
    /\ Len(path) >= 2
    /\ path[1] = "/"
    /\ \E k \in Slashes(path) :
          /\ k > 2
          /\ \A j \in 2..(k-1) : path[j] # "/"
          /\ toLowerCase(SubSeq(path, k, Len(path))) \in RouteTails

\* req.params.org of a path that matches
ParamOrg(path) ==
    LET k == CHOOSE i \in Slashes(path) : i > 2 /\ \A j \in 2..(i-1) : path[j] # "/"
    IN  SubSeq(path, 2, k-1)

\* a chain registered with the scope check in front of the authentication
AfterVersionGateScopeFirst(r) ==
    IF r.method = "POST" /\ MatchesOrgRepos(r.path) THEN "scope" ELSE "notFound"

\* where next() of the version gate leads: the POST /:org/repos chain or,
\* for every other request, the not-found middleware
AfterVersionGate(r) ==
    IF r.method = "POST" /\ MatchesOrgRepos(r.path) THEN "auth" ELSE "notFound"

\* a router without its error handler: the error leaves the router unanswered
FailUnhandled(err) ==
    /\ errors' = Append(errors, err)
    /\ pc' = "done"

\* next(err): Express skips to the error handler
Fail(err) ==
    /\ errors' = Append(errors, err)
    /\ pc' = "errorHandler"

(* ---------------------------------------------------------------------- *)
(* The version gate                                                        *)
(* ---------------------------------------------------------------------- *)
\* req.query['api-version'] || req.headers['api-version']
EffectiveVersion(r) ==
    IF r.query.kind # "none" /\ r.query.val # <<>>
    THEN r.query
    ELSE IF "api-version" \in DOMAIN r.headers
         THEN [kind |-> "string", val |-> r.headers["api-version"]]
         ELSE [kind |-> "none", val |-> <<>>]

\* a gate without the test for a missing version: the missing value falls
\* through to the test against the list
VersionVerdictNoMissingCheck(r) ==
    LET v == EffectiveVersion(r) IN
    IF v.kind = "array"
    THEN [ok |-> FALSE, err |-> TypeError]
    ELSE IF toLowerCase(v.val) = toLowerCase(RetiredPreview)
    THEN [ok |-> FALSE,
          err |-> jsonError("This endpoint no longer supports the original preview version.",
                            422, hardcodedApiVersions[1], "")]
    ELSE IF indexOf(hardcodedApiVersions, toLowerCase(v.val)) < 0
    THEN [ok |-> FALSE,
          err |-> jsonError("This endpoint does not support the API version you provided at this time.",
                            422, <<>>, "")]
    ELSE [ok |-> TRUE, err |-> TypeError]

\* a gate that compares with the retired version without folding the case
VersionVerdictCaseSensitive(r) ==
    LET v == EffectiveVersion(r) IN
    IF v.kind = "none" \/ v.val = <<>>
    THEN [ok |-> FALSE,
          err |-> jsonError("This endpoint requires that an API Version be provided.",
                            422, <<>>, "")]
    ELSE IF v.kind = "array"
    THEN [ok |-> FALSE, err |-> TypeError]
    ELSE IF v.val = RetiredPreview
    THEN [ok |-> FALSE,
          err |-> jsonError("This endpoint no longer supports the original preview version.",
                            422, hardcodedApiVersions[1], "")]
    ELSE IF indexOf(hardcodedApiVersions, toLowerCase(v.val)) < 0
    THEN [ok |-> FALSE,
          err |-> jsonError("This endpoint does not support the API version you provided at this time.",
                            422, <<>>, "")]
    ELSE [ok |-> TRUE, err |-> TypeError]

\* the outcome of the gate for a request that is not a client route
VersionVerdict(r) ==
    LET v == EffectiveVersion(r) IN
    IF v.kind = "none" \/ v.val = <<>>
    THEN [ok |-> FALSE,
          err |-> jsonError("This endpoint requires that an API Version be provided.",
                            422, <<>>, "")]
    ELSE IF v.kind = "array"
    THEN [ok |-> FALSE, err |-> TypeError]
    ELSE IF toLowerCase(v.val) = toLowerCase(RetiredPreview)
    THEN [ok |-> FALSE,
          err |-> jsonError("This endpoint no longer supports the original preview version.",
                            422, hardcodedApiVersions[1], "")]
    ELSE IF indexOf(hardcodedApiVersions, toLowerCase(v.val)) < 0
    THEN [ok |-> FALSE,
          err |-> jsonError("This endpoint does not support the API version you provided at this time.",
                            422, <<>>, "")]
    ELSE [ok |-> TRUE, err |-> TypeError]

VersionGate ==
    /\ pc = "versionGate"
    /\ trace' = Append(trace, "version")
    /\ IF isClientRoute(req)
       THEN /\ pc' = AfterVersionGate(req)
            /\ UNCHANGED <<apiVersion, errors>>
       ELSE IF VersionVerdict(req).ok
       THEN /\ apiVersion' = EffectiveVersion(req).val
            /\ pc' = AfterVersionGate(req)
            /\ UNCHANGED errors
       ELSE /\ Fail(VersionVerdict(req).err)
            /\ UNCHANGED apiVersion
    /\ UNCHANGED <<admin, flight, shared, req, accepts, attempted, identity, organization, grantChecks,
                   lookups, directory, created, downstream, events,
                   resStatus, response, handled>>

(* ---------------------------------------------------------------------- *)
(* Authentication and the scope check                                      *)
(* ---------------------------------------------------------------------- *)
AllProviders == {"aad", "apikey", "ado"}

\* supportMultipleAuthProviders([aadApiAuthentication, ReposApiAuthentication,
\*                               AzureDevOpsAuthenticationMiddleware])
multipleProviders == <<"aad", "apikey", "ado">>

\* a list that leaves the API key provider out
aadOnlyProviders == <<"aad">>

\* supportMultipleAuthProviders([aadApiAuthentication, ReposApiAuthentication])
aadAndCustomProviders == <<"aad", "apikey">>

\* the composer: the providers are tried in order and the first that accepts
\* wins; idx is 0 when none of them accepts
supportMultipleAuthProviders(list, acc) ==
    LET hits == { i \in DOMAIN list : list[i] \in acc }
        idx  == IF hits = {} THEN 0
                ELSE CHOOSE i \in hits : \A j \in hits : i <= j
    IN  [idx  |-> idx,
         tried |-> IF idx = 0 THEN list ELSE SubSeq(list, 1, idx)]

Acme  == <<"a","c","m","e">>
Ghost == <<"g","h","o","s","t">>
Star  == <<"*">>

ScopeSets == { {"createRepo"}, {"news"} }

OrganizationScopeConfigs ==
    { [configured |-> FALSE, grants |-> {}] } \cup
    { [configured |-> TRUE, grants |-> g] : g \in { {}, {Acme}, {Star} } }

\* the credentials drawn: accepted by no provider, by one, or by all
CredentialCases == { {}, AllProviders } \cup { {p} : p \in AllProviders }

Authenticate ==
    /\ pc = "auth"
    /\ trace' = Append(trace, "auth")
    /\ \E acc \in CredentialCases :
         LET r == supportMultipleAuthProviders(aadAndCustomProviders, acc) IN
         /\ accepts' = acc
         /\ attempted' = r.tried
         /\ IF r.idx # 0
            THEN /\ \E sc \in ScopeSets, os \in OrganizationScopeConfigs :
                       identity' = [provider |-> aadAndCustomProviders[r.idx],
                                    scopes |-> sc, organizationScopes |-> os]
                 /\ pc' = "scope"
                 /\ UNCHANGED errors
            ELSE /\ Fail(jsonError("AuthenticationFailed", 401, <<>>, ""))
                 /\ UNCHANGED identity
    /\ UNCHANGED <<admin, flight, shared, req, apiVersion, organization, grantChecks, lookups,
                   directory, created, downstream, events, resStatus, response, handled>>

\* requireAadApiAuthorizedScope(['repo/create', 'createRepo']): any of the scopes
requireAadApiAuthorizedScope(required, id) ==
    \E i \in DOMAIN required : required[i] \in id.scopes

CreateScopes == <<"repo/create", "createRepo">>

ScopeCheck ==
    /\ pc = "scope"
    /\ trace' = Append(trace, "scope")
    /\ IF requireAadApiAuthorizedScope(CreateScopes, identity)
       THEN pc' = "resolver" /\ UNCHANGED errors
       ELSE Fail(jsonError("ForbiddenScope", 401, <<>>, ""))
    /\ UNCHANGED <<admin, flight, shared, req, apiVersion, accepts, attempted, identity, organization,
                   grantChecks, lookups, directory, created, downstream, events,
                   resStatus, response, handled>>

(* ---------------------------------------------------------------------- *)
(* The organization resolver                                               *)
(* ---------------------------------------------------------------------- *)
\* apiKeyToken.hasOrganizationScope(orgName): by name or by the wildcard
hasOrganizationScope(id, orgName) ==
    orgName \in id.organizationScopes.grants \/ Star \in id.organizationScopes.grants

\* the error operations.getOrganization throws for a name it does not know
LookupError == Err("OrganizationNotFound", 0, <<>>, "", FALSE)

\* a resolver without the test for missing organization scopes
ResolverVerdictNoConfigCheck(id, orgName, known) ==
    IF ~hasOrganizationScope(id, orgName)
    THEN [ok |-> FALSE, checks |-> 1, lookups |-> 0, handle |-> NoOrganization,
          err |-> jsonError("The key is not authorized for this organization",
                            401, <<>>, "")]
    ELSE IF ~known
    THEN [ok |-> FALSE, checks |-> 1, lookups |-> 1, handle |-> NoOrganization,
          err |-> jsonError(LookupError.message, 400, <<>>, LookupError.message)]
    ELSE [ok |-> TRUE, checks |-> 1, lookups |-> 1, handle |-> [name |-> orgName],
          err |-> TypeError]

\* a resolver whose catch block does not return: the null handle is attached
\* and the chain continues
ResolverVerdictLookupSwallowed(id, orgName, known) ==
    IF ~id.organizationScopes.configured
    THEN [ok |-> FALSE, checks |-> 0, lookups |-> 0, handle |-> NoOrganization,
          err |-> jsonError("There is a problem with the key configuration (no organization scopes)",
                            412, <<>>, "")]
    ELSE IF ~hasOrganizationScope(id, orgName)
    THEN [ok |-> FALSE, checks |-> 1, lookups |-> 0, handle |-> NoOrganization,
          err |-> jsonError("The key is not authorized for this organization",
                            401, <<>>, "")]
    ELSE IF ~known
    THEN [ok |-> TRUE, checks |-> 1, lookups |-> 1, handle |-> NoOrganization,
          err |-> TypeError]
    ELSE [ok |-> TRUE, checks |-> 1, lookups |-> 1, handle |-> [name |-> orgName],
          err |-> TypeError]

\* the handler, given whether the directory knows the name: the error it
\* forwards (ok = FALSE) or the handle it attaches, and the calls it made
ResolverVerdict(id, orgName, known) ==
    IF ~id.organizationScopes.configured
    THEN [ok |-> FALSE, checks |-> 0, lookups |-> 0, handle |-> NoOrganization,
          err |-> jsonError("There is a problem with the key configuration (no organization scopes)",
                            412, <<>>, "")]
    ELSE IF ~hasOrganizationScope(id, orgName)
    THEN [ok |-> FALSE, checks |-> 1, lookups |-> 0, handle |-> NoOrganization,
          err |-> jsonError("The key is not authorized for this organization",
                            401, <<>>, "")]
    ELSE IF ~known
    THEN [ok |-> FALSE, checks |-> 1, lookups |-> 1, handle |-> NoOrganization,
          err |-> jsonError(LookupError.message, 400, <<>>, LookupError.message)]
    ELSE [ok |-> TRUE, checks |-> 1, lookups |-> 1, handle |-> [name |-> orgName],
          err |-> TypeError]

OrganizationResolver ==
    /\ pc = "resolver"
    /\ trace' = Append(trace, "resolver")
    /\ \E known \in BOOLEAN :
         LET v == ResolverVerdict(identity, ParamOrg(req.path), known) IN
         /\ grantChecks' = grantChecks + v.checks
         /\ lookups' = lookups + v.lookups
         /\ directory' = IF v.lookups = 0 THEN directory
                          ELSE IF known THEN "found" ELSE "threw"
         /\ organization' = v.handle
         /\ IF v.ok THEN pc' = "create" /\ UNCHANGED errors
                    ELSE Fail(v.err)
    /\ UNCHANGED <<admin, flight, shared, req, apiVersion, accepts, attempted, identity, created,
                   downstream, events, resStatus, response, handled>>

(* ---------------------------------------------------------------------- *)
(* The creation handler                                                    *)
(* ---------------------------------------------------------------------- *)
\* Object.assign({}, req.headers): what trackEvent is handed as the
\* properties of ApiRepoCreateRequest
HeaderSnapshot(headers) == ObjectAssign(EmptyObject, headers)

\* a merge in the other order: the headers are copied over the body
SanitizedPayloadHeadersWin(headers, body) ==
    Delete(Delete(ObjectAssign(ObjectAssign(EmptyObject, body), headers),
                  "access_token"),
           "authorization")

\* convergedObject once the body is merged in and the two keys are deleted
SanitizedPayload(headers, body) ==
    Delete(Delete(ObjectAssign(HeaderSnapshot(headers), body), "access_token"),
           "authorization")

Event(name, properties) == [name |-> name, properties |-> properties]

\* the error of a telemetry sink whose trackEvent throws
SinkError == Err("TelemetryFailed", 0, <<>>, "", FALSE)

\* providers.customizedNewRepositoryLogic: a hook is configured or it is not
Hooks == BOOLEAN

\* logic?.createContext(req)
CreateContext(configured) == IF configured THEN "context" ELSE "undefined"

\* the handler up to the await: the request event, the merge, the hook, and
\* the call of CreateRepository.  A throw in front of the try block rejects
\* the handler, and asyncHandler passes the rejection to next.
CreateRequest ==
    /\ pc = "create"
    /\ trace' = Append(trace, "create")
    /\ \E sinkOk \in BOOLEAN, logic \in Hooks :
         IF sinkOk
         THEN /\ events' = Append(events,
                       Event("ApiRepoCreateRequest", HeaderSnapshot(req.headers)))
              /\ created' = Append(created,
                       [organization |-> organization,
                        logic |-> logic,
                        customContext |-> CreateContext(logic),
                        payload |-> SanitizedPayload(req.headers, req.body),
                        entrypoint |-> "Api"])
              /\ pc' = "awaitCreate"
              /\ UNCHANGED errors
         ELSE /\ Fail(SinkError)
              /\ UNCHANGED <<events, created>>
    /\ UNCHANGED <<admin, flight, shared, req, apiVersion, accepts, attempted, identity, organization,
                   grantChecks, lookups, directory, downstream, resStatus,
                   response, handled>>

\* { ...convergedObject, error: error.message, encodedError: JSON.stringify(error) }
FailureData(payload, error) ==
    [k \in (DOMAIN payload) \cup {"error", "encodedError"} |->
        IF k = "error" THEN error.message
        ELSE IF k = "encodedError" THEN JSONstringify(error)
        ELSE payload[k]]

\* a catch block that records the failure and does not call next
CatchBlockSwallows(error, sinkOk) ==
    /\ events' = Append(events,
             Event("ApiRepoCreateFailed",
                   FailureData(SanitizedPayload(req.headers, req.body), error)))
    /\ pc' = "done"
    /\ UNCHANGED errors

\* the catch block; when JSON.stringify(error) or trackEvent throws, the
\* handler rejects and asyncHandler passes what was thrown to next
CatchBlock(error, sinkOk) ==
    IF ~CanStringify(error)
    THEN /\ Fail(TypeError)
         /\ UNCHANGED events
    ELSE IF ~sinkOk
    THEN /\ Fail(SinkError)
         /\ UNCHANGED events
    ELSE /\ events' = Append(events,
                 Event("ApiRepoCreateFailed",
                       FailureData(SanitizedPayload(req.headers, req.body), error)))
         /\ Fail(error)

Results == { [repository |-> "created", circular |-> c] : c \in BOOLEAN }

DownstreamErrors ==
    { Err("DownstreamCreationFailed", 0, <<>>, "", FALSE),
      Err("DownstreamCreationFailed", 409, <<>>, "", FALSE),
      Err("DownstreamCreationFailed", 409, <<>>, "", TRUE) }

\* CreateRepository resolves: the try block after the await
CreateRepositoryReturns ==
    /\ pc = "awaitCreate"
    /\ \E result \in Results, sinkOk \in BOOLEAN, sinkOkInCatch \in BOOLEAN :
         /\ downstream' = [kind |-> "returned", circular |-> result.circular,
                           error |-> TypeError]
         /\ resStatus' = 201
         /\ IF ~CanStringify(result)
            THEN /\ CatchBlock(TypeError, sinkOkInCatch)
                 /\ UNCHANGED response
            ELSE IF ~sinkOk
            THEN /\ CatchBlock(SinkError, sinkOkInCatch)
                 /\ UNCHANGED response
            ELSE /\ events' = Append(events,
                        Event("ApiRepoCreateRequestSuccess",
                              [request |-> JSONstringify(SanitizedPayload(req.headers, req.body)),
                               response |-> JSONstringify(result)]))
                 /\ response' = [sent |-> TRUE, status |-> 201, kind |-> "result",
                                 body |-> result.repository]
                 /\ pc' = "done"
                 /\ UNCHANGED errors
    /\ UNCHANGED <<admin, flight, shared, req, apiVersion, accepts, attempted, identity, organization,
                   grantChecks, lookups, directory, created, handled, trace>>

\* a handler that calls CreateRepository once more when it has rejected
CreateRepositoryFailsRetries ==
    /\ pc = "awaitCreate"
    /\ Len(created) < 3
    /\ \E error \in DownstreamErrors :
         downstream' = [kind |-> "failed", circular |-> error.circular,
                        error |-> error]
    /\ created' = Append(created, created[Len(created)])
    /\ UNCHANGED <<admin, flight, shared, req, pc, apiVersion, accepts, attempted,
                   identity, organization, grantChecks, lookups, directory,
                   events, errors, resStatus, response, handled, trace>>

\* CreateRepository rejects
CreateRepositoryFails ==
    /\ pc = "awaitCreate"
    /\ \E error \in DownstreamErrors, sinkOk \in BOOLEAN :
         /\ downstream' = [kind |-> "failed", circular |-> error.circular,
                           error |-> error]
         /\ CatchBlock(error, sinkOk)
    /\ UNCHANGED <<admin, flight, shared, req, apiVersion, accepts, attempted, identity, organization,
                   grantChecks, lookups, directory, created, resStatus,
                   response, handled, trace>>

(* ---------------------------------------------------------------------- *)
(* The end of the chain                                                    *)
(* ---------------------------------------------------------------------- *)
\* a middleware that passes every request on
NotFoundPassesThrough ==
    /\ pc = "notFound"
    /\ pc' = "exited"
    /\ UNCHANGED <<admin, flight, shared, req, apiVersion, accepts, attempted,
                   identity, organization, grantChecks, lookups, directory,
                   created, downstream, events, errors, resStatus, response,
                   handled, trace>>

\* the middleware behind the routes: client routes leave the router,
\* everything else is CreateError.NotFound
NotFound ==
    /\ pc = "notFound"
    /\ IF isClientRoute(req)
       THEN pc' = "exited" /\ UNCHANGED errors
       ELSE Fail(Err("The API endpoint was not found.", 404, <<>>, "", FALSE))
    /\ UNCHANGED <<admin, flight, shared, req, apiVersion, accepts, attempted, identity, organization,
                   grantChecks, lookups, directory, created, downstream,
                   events, resStatus, response, handled, trace>>

\* the status JsonErrorHandler answers with
ErrorStatus(err) == IF err.status = 0 THEN 500 ELSE err.status

JsonErrorHandler ==
    /\ pc = "errorHandler"
    /\ handled' = handled + 1
    /\ response' = [sent |-> TRUE, status |-> ErrorStatus(errors[Len(errors)]),
                    kind |-> "error", body |-> errors[Len(errors)].message]
    /\ pc' = "done"
    /\ UNCHANGED <<admin, flight, shared, req, apiVersion, accepts, attempted, identity, organization,
                   grantChecks, lookups, directory, created, downstream,
                   events, resStatus, errors, trace>>

Next ==
    \/ VersionGate
    \/ Authenticate
    \/ ScopeCheck
    \/ OrganizationResolver
    \/ CreateRequest
    \/ CreateRepositoryReturns
    \/ CreateRepositoryFails
    \/ NotFound
    \/ JsonErrorHandler

Spec == Init /\ [][Next]_vars

(* ---------------------------------------------------------------------- *)
(* Properties                                                              *)
(* ---------------------------------------------------------------------- *)
SensitiveKeys == {"access_token", "authorization"}

InTrace(gate) == \E i \in DOMAIN trace : trace[i] = gate

\* the gate that ran last forwarded an error
FailedAt(gate) ==
    /\ trace # <<>>
    /\ trace[Len(trace)] = gate
    /\ errors # <<>>

\* the creation handler has returned or rejected
OrchestratorEnded == InTrace("create") /\ pc \notin {"create", "awaitCreate"}

\* C1: neither the payload handed to CreateRepository nor the properties of
\* any telemetry event (ApiRepoCreateRequest, ApiRepoCreateRequestSuccess,
\* ApiRepoCreateFailed) has the key access_token or the key authorization.
C1_NoSensitiveKeys ==
    /\ \A i \in DOMAIN created : SensitiveKeys \cap DOMAIN created[i].payload = {}
    /\ \A i \in DOMAIN events : SensitiveKeys \cap DOMAIN events[i].properties = {}

\* C2: once CreateRepository has returned, the caller has the 201 response
\* with the result and no error was forwarded, whatever happens to the
\* serialization for, or the emission of, the success event.
C2_SuccessAlwaysAnswered ==
    downstream.kind = "returned" =>
        /\ response = [sent |-> TRUE, status |-> 201, kind |-> "result",
                       body |-> "created"]
        /\ errors = <<>>

\* C3: once CreateRepository has failed with E, the failure event was emitted
\* and E itself, and nothing else, was passed to next.
C3_FailureForwardedUnchanged ==
    downstream.kind = "failed" =>
        /\ errors = << downstream.error >>
        /\ events # <<>>
        /\ events[Len(events)].name = "ApiRepoCreateFailed"
        /\ events[Len(events)].properties["error"] = downstream.error.message

\* C4: an invocation of the creation handler never both answers 201 and
\* forwards an error, forwards at most one error, and once it has ended it
\* has done exactly one of the two.
C4_ExactlyOneOutcome ==
    InTrace("create") =>
        /\ Len(errors) <= 1
        /\ ~(response.kind = "result" /\ errors # <<>>)
        /\ OrchestratorEnded =>
              \/ response.kind = "result" /\ response.status = 201 /\ errors = <<>>
              \/ response.kind # "result" /\ Len(errors) = 1

\* the handler answered nothing itself although it had set the status 201
C4_Witness ==
    /\ OrchestratorEnded
    /\ resStatus = 201
    /\ Len(errors) = 1
    /\ response.kind = "error"

GateOrder == <<"version", "auth", "scope", "resolver", "create">>

\* the gates ran in the order of GateOrder, each after the one before it
\* had let the request pass
C5_State ==
    /\ Len(trace) <= Len(GateOrder)
    /\ trace = SubSeq(GateOrder, 1, Len(trace))
    /\ InTrace("auth") => (apiVersion # <<>> \/ isClientRoute(req))
    /\ InTrace("scope") => identity # NoIdentity
    /\ InTrace("resolver") => requireAadApiAuthorizedScope(CreateScopes, identity)
    /\ \A i \in DOMAIN created :
          /\ organization # NoOrganization
          /\ created[i].organization = organization
    /\ errors # <<>> => pc \in {"errorHandler", "done"}

\* C5: version gate, authentication, scope check, organization resolver and
\* creation run in this order, each only after the one before it passed the
\* request, and after a failure no gate runs and CreateRepository is not
\* called.
C5_GatesInOrder ==
    /\ []C5_State
    /\ [][errors # <<>> => (trace' = trace /\ created' = created)]_vars

C5_Witness ==
    /\ trace = GateOrder
    /\ created # <<>>
    /\ ~isClientRoute(req)

AuthPassed == InTrace("auth") /\ ~FailedAt("auth")

\* C6 as stated: a request that exactly one of the three providers accepts
\* passes authentication on this route, for each of the three.
C6_AnyOfThree ==
    \A p \in AllProviders :
        (InTrace("auth") /\ accepts = {p}) => (AuthPassed /\ identity.provider = p)

\* C6: a request that only the AAD provider or only the API key provider
\* accepts passes authentication with the identity of that provider; a
\* request that only the Azure DevOps provider accepts is refused with 401.
C6_AnyOfTwo ==
    /\ \A p \in {"aad", "apikey"} :
          (InTrace("auth") /\ accepts = {p}) => (AuthPassed /\ identity.provider = p)
    /\ (InTrace("auth") /\ accepts = {"ado"}) =>
          /\ FailedAt("auth")
          /\ errors[1].status = 401
          /\ identity = NoIdentity

C6_Witness ==
    /\ accepts = {"apikey"}
    /\ attempted = <<"aad", "apikey">>
    /\ identity.provider = "apikey"
    /\ InTrace("scope")

\* C7: for an identity without organization scopes the resolver forwards the
\* 412 error, whatever the organization, without a grant check, without a
\* directory lookup and without attaching a handle.
C7_NoScopesIs412 ==
    (InTrace("resolver") /\ ~identity.organizationScopes.configured) =>
        /\ FailedAt("resolver")
        /\ Len(errors) = 1
        /\ errors[1].status = 412
        /\ grantChecks = 0
        /\ lookups = 0
        /\ organization = NoOrganization
        /\ created = <<>>

C7_Witness ==
    /\ InTrace("resolver")
    /\ ~identity.organizationScopes.configured
    /\ ParamOrg(req.path) = Ghost
    /\ response.status = 412

\* the grants of the identity cover the organization of the path
Covered ==
    \/ ParamOrg(req.path) \in identity.organizationScopes.grants
    \/ <<"*">> \in identity.organizationScopes.grants

\* C8: for an identity with organization scopes the handle of the requested
\* organization is attached, and the chain continues, exactly when the grants
\* cover the name and the lookup succeeds; a name not covered is refused with
\* 401 and no lookup, a failing lookup with 400 around the lookup error, both
\* without a handle.
C8_ResolverOutcome ==
    (InTrace("resolver") /\ identity.organizationScopes.configured) =>
        /\ grantChecks = 1
        /\ (organization # NoOrganization) <=> (Covered /\ directory = "found")
        /\ (Covered /\ directory = "found") =>
              /\ organization = [name |-> ParamOrg(req.path)]
              /\ ~FailedAt("resolver")
        /\ ~Covered =>
              /\ FailedAt("resolver")
              /\ errors[1].status = 401
              /\ lookups = 0
              /\ directory = "unasked"
        /\ (Covered /\ directory # "found") =>
              /\ FailedAt("resolver")
              /\ lookups = 1
              /\ directory = "threw"
              /\ errors[1].status = 400
              /\ errors[1].inner = LookupError.message

C8_Witness ==
    /\ InTrace("create")
    /\ identity.organizationScopes.grants = {<<"*">>}
    /\ organization = [name |-> Ghost]

NonClientPath == ~startsWith(toLowerCase(req.path), <<"/","c","l","i","e","n","t">>)

\* C9: a request to a path that is not a client path, with no api-version in
\* the query and none in the headers, gets the 422 missing-version error: no
\* version is attached and no handler but the error handler runs after the
\* gate.
C9_MissingVersionIs422 ==
    (/\ NonClientPath
     /\ req.query.kind = "none"
     /\ "api-version" \notin DOMAIN req.headers
     /\ InTrace("version")) =>
        /\ errors = << jsonError("This endpoint requires that an API Version be provided.",
                                 422, <<>>, "") >>
        /\ apiVersion = <<>>
        /\ trace = <<"version">>
        /\ created = <<>>
        /\ pc \in {"errorHandler", "done"}
        /\ pc = "done" => (response.kind = "error" /\ response.status = 422)

C9_Witness ==
    /\ NonClientPath
    /\ req.method = "POST"
    /\ MatchesOrgRepos(req.path)
    /\ req.query.kind = "none"
    /\ "api-version" \notin DOMAIN req.headers
    /\ pc = "done"
    /\ response.status = 422

LowerRetired ==
    <<"2","0","1","6","-","0","9","-","2","2","_","p","r","e","v","i","e","w">>

\* the api-version of the request, the query before the header, is the
\* retired preview version in some letter case
RetiredRequested ==
    \/ req.query.kind = "string" /\ toLowerCase(req.query.val) = LowerRetired
    \/ /\ req.query.kind = "none"
       /\ "api-version" \in DOMAIN req.headers
       /\ toLowerCase(req.headers["api-version"]) = LowerRetired

\* C10: a request to a path that is not a client path whose api-version is the
\* retired preview version, in any letter case, gets the 422 error of the
\* retired version, and that error names 2019-10-01, the first entry of the
\* list of versions; it does not get the error of an unsupported version.
C10_RetiredIs422 ==
    (NonClientPath /\ RetiredRequested /\ InTrace("version")) =>
        /\ Len(errors) = 1
        /\ errors[1].status = 422
        /\ errors[1].message = "This endpoint no longer supports the original preview version."
        /\ errors[1].names = <<"2","0","1","9","-","1","0","-","0","1">>
        /\ errors[1].names = hardcodedApiVersions[1]
        /\ apiVersion = <<>>
        /\ trace = <<"version">>
        /\ pc = "done" => response.status = 422

C10_Witness ==
    /\ NonClientPath
    /\ req.query.kind = "none"
    /\ "api-version" \in DOMAIN req.headers
    /\ req.headers["api-version"] = RetiredUpper
    /\ pc = "done"
    /\ response.status = 422

\* the value the gate reads: the query when it has one, the header otherwise
SuppliedVersion ==
    IF req.query.kind # "none" THEN req.query.val
    ELSE IF "api-version" \in DOMAIN req.headers THEN req.headers["api-version"]
    ELSE <<>>

\* C11: on a path that is not a client path the gate attaches the value of
\* the query, or of the header when the query has none, and only when that
\* value is in the list of versions ignoring case; every other request gets
\* a 422 error.  An attached version is therefore in the list, ignoring case,
\* and is not the retired version.
C11_AttachedOnlyWhenAllowed ==
    (NonClientPath /\ InTrace("version")) =>
        /\ apiVersion # <<>> =>
              /\ apiVersion = SuppliedVersion
              /\ \E i \in DOMAIN hardcodedApiVersions :
                    hardcodedApiVersions[i] = toLowerCase(apiVersion)
              /\ toLowerCase(apiVersion) # LowerRetired
        /\ apiVersion = <<>> =>
              /\ errors # <<>>
              /\ errors[1].status = 422

\* C12: on a client path, whatever api-version the request carries, the gate
\* forwards no error and attaches nothing.
C12_ClientPathBypasses ==
    (~NonClientPath /\ InTrace("version")) =>
        /\ apiVersion = <<>>
        /\ trace = <<"version">> =>
              /\ errors = <<>>
              /\ pc \in {"auth", "notFound", "exited"}
        /\ errors # <<>> => Len(trace) > 1

C12_Witness ==
    /\ req.path = <<"/","C","l","i","e","n","t","/","x">>
    /\ req.query.val = RetiredPreview
    /\ "api-version" \in DOMAIN req.headers
    /\ req.headers["api-version"] = UnsupportedVersion
    /\ pc = "exited"
    /\ errors = <<>>

\* C14: a request that fails at some stage reaches the JSON error handler,
\* and reaches it once; a request that was answered with the result of the
\* creation does not reach it.
C14_ErrorHandlerOnce ==
    /\ handled <= 1
    /\ errors # <<>> => pc \in {"errorHandler", "done"}
    /\ pc = "errorHandler" => (errors # <<>> /\ handled = 0)
    /\ (pc = "done" /\ errors # <<>>) => (handled = 1 /\ response.kind = "error")
    /\ handled = 1 => (errors # <<>> /\ pc = "done")
    /\ response.kind = "result" => (handled = 0 /\ errors = <<>>)

C14_Witness ==
    /\ downstream.kind = "failed"
    /\ handled = 1
    /\ response.kind = "error"
    /\ response.status = 409

RouteMatched == req.method = "POST" /\ MatchesOrgRepos(req.path)

\* the version gate let the request pass
GatePassed == InTrace("version") /\ (apiVersion # <<>> \/ ~NonClientPath)

\* C15 as stated: a request that passed the version gate and matches no route
\* ends with the 404 error.
C15_UnmatchedIs404 ==
    (GatePassed /\ ~RouteMatched /\ pc \in {"done", "exited"}) =>
        /\ pc = "done"
        /\ response.kind = "error"
        /\ response.status = 404

\* C15: a request on a path that is not a client path which passed the
\* version gate and matches no route ends with the 404 error; a request on a
\* client path that matches no route leaves the router without an error and
\* without a response.
C15_UnmatchedNonClientIs404 ==
    /\ (GatePassed /\ ~RouteMatched /\ NonClientPath /\ pc # "notFound") =>
          /\ pc \in {"errorHandler", "done"}
          /\ Len(errors) = 1
          /\ errors[1].status = 404
          /\ pc = "done" => (response.kind = "error" /\ response.status = 404)
    /\ (GatePassed /\ ~RouteMatched /\ ~NonClientPath) =>
          /\ pc \in {"notFound", "exited"}
          /\ errors = <<>>
          /\ ~response.sent

C15_Witness ==
    /\ req.method = "GET"
    /\ req.path = <<"/","a","c","m","e","/","r","e","p","o","s">>
    /\ apiVersion # <<>>
    /\ pc = "done"
    /\ response.status = 404

\* C16: CreateRepository is called at most once for a request, also after it
\* failed and after a telemetry error.
C16_CreateAtMostOnce ==
    /\ Len(created) <= 1
    /\ created # <<>> => InTrace("create")

C16_Witness ==
    /\ Len(created) = 1
    /\ downstream.kind = "failed"
    /\ errors = << SinkError >>
    /\ pc = "done"

\* C18: in the payload handed to CreateRepository a key of the body other
\* than the two deleted ones has the value of the body, also when the headers
\* have the key too, and a key only the headers have has their value.
C18_BodyOverridesHeaders ==
    \A i \in DOMAIN created :
        /\ \A k \in (DOMAIN req.body) \ SensitiveKeys :
              /\ k \in DOMAIN created[i].payload
              /\ created[i].payload[k] = req.body[k]
        /\ \A k \in (DOMAIN req.headers) \ ((DOMAIN req.body) \cup SensitiveKeys) :
              /\ k \in DOMAIN created[i].payload
              /\ created[i].payload[k] = req.headers[k]

C18_Witness ==
    /\ created # <<>>
    /\ "name" \in DOMAIN req.headers
    /\ "name" \in DOMAIN req.body
    /\ req.headers["name"] = <<"h">>
    /\ created[1].payload["name"] = <<"b">>
    /\ "api-version" \in DOMAIN created[1].payload

Emitted(name) == \E i \in DOMAIN events : events[i].name = name

\* C20: ApiRepoCreateFailed is emitted only when CreateRepository failed,
\* ApiRepoCreateRequestSuccess only when it returned, and never both.
C20_EventsMatchOutcome ==
    /\ Emitted("ApiRepoCreateFailed") => downstream.kind = "failed"
    /\ Emitted("ApiRepoCreateRequestSuccess") => downstream.kind = "returned"
    /\ ~(Emitted("ApiRepoCreateFailed") /\ Emitted("ApiRepoCreateRequestSuccess"))

(* ---------------------------------------------------------------------- *)
(* The administration gate (middleware/business/administration.ts)         *)
(* ---------------------------------------------------------------------- *)
\* the API router with no request in it
RouterAtRest ==
    /\ req = [method |-> "GET", path |-> <<"/","a","c","m","e">>,
              query |-> [kind |-> "none", val |-> <<>>],
              headers |-> EmptyObject, body |-> EmptyObject]
    /\ pc = "exited"
    /\ apiVersion = <<>>
    /\ accepts = {}
    /\ attempted = <<>>
    /\ identity = NoIdentity
    /\ organization = NoOrganization
    /\ grantChecks = 0
    /\ lookups = 0
    /\ directory = "unasked"
    /\ created = <<>>
    /\ downstream = NoDownstream
    /\ events = <<>>
    /\ resStatus = 0
    /\ response = NoResponse
    /\ errors = <<>>
    /\ handled = 0
    /\ trace = <<>>

routerVars == <<req, pc, apiVersion, accepts, attempted, identity, organization,
                grantChecks, lookups, directory, created, downstream, events,
                resStatus, response, errors, handled, trace>>

\* what isPortalAdministrator() resolves with, as JavaScript writes the values
AdminAnswers == {"true", "false", "undefined", "'true'", "1"}

\* what it rejects with
AdminFailures == {"network", "data-access", "timeout"}

\* wrapError(inner, message, userIntendedMessage) of ../../utils
wrapError(inner, message, userIntendedMessage) ==
    [inner |-> inner, message |-> message, userIntendedMessage |-> userIntendedMessage]

\* a call of next: without an argument, or with an error
NextCall(withError, argument) == [error |-> withError, argument |-> argument]

\* next()
Allow == NextCall(FALSE, wrapError("null", "", FALSE))

\* denyRoute(next)
denyRoute ==
    NextCall(TRUE,
             wrapError("null",
                       "These aren't the droids you are looking for. You do not have permission to be here.",
                       TRUE))

\* the middleware is entered and isPortalAdministrator() is called
AdminEnter(i) ==
    /\ admin[i].pc = "start"
    /\ admin' = [admin EXCEPT ![i].pc = "pending"]
    /\ UNCHANGED <<routerVars, flight, shared>>

\* the promise resolves
AdminResolves(i) ==
    /\ admin[i].pc = "pending"
    /\ \E v \in AdminAnswers :
         admin' = [admin EXCEPT ![i].pc = "then", ![i].answer = v]
    /\ UNCHANGED <<routerVars, flight, shared>>

\* the promise rejects
AdminRejects(i) ==
    /\ admin[i].pc = "pending"
    /\ \E e \in AdminFailures :
         admin' = [admin EXCEPT ![i].pc = "catch", ![i].answer = e]
    /\ UNCHANGED <<routerVars, flight, shared>>

\* a then callback that forgets to return after next()
AdminThenFallsThrough(i) ==
    /\ admin[i].pc = "then"
    /\ admin' = [admin EXCEPT
                   ![i].pc = "done",
                   ![i].calls = IF admin[i].answer = "true"
                                THEN @ \o <<Allow, denyRoute>>
                                ELSE Append(@, denyRoute)]
    /\ UNCHANGED <<routerVars, flight, shared>>

\* the then callback: isAdmin === true ? next() : denyRoute(next)
AdminThen(i) ==
    /\ admin[i].pc = "then"
    /\ admin' = [admin EXCEPT
                   ![i].pc = "done",
                   ![i].calls = Append(@, IF admin[i].answer = "true"
                                          THEN Allow ELSE denyRoute)]
    /\ UNCHANGED <<routerVars, flight, shared>>

\* a catch callback that hands the error of the check to next
AdminCatchForwardsError(i) ==
    /\ admin[i].pc = "catch"
    /\ admin' = [admin EXCEPT
                   ![i].pc = "done",
                   ![i].calls = Append(@, NextCall(TRUE,
                                     wrapError(admin[i].answer, admin[i].answer, FALSE)))]
    /\ UNCHANGED <<routerVars, flight, shared>>

\* the catch callback: denyRoute(next)
AdminCatch(i) ==
    /\ admin[i].pc = "catch"
    /\ admin' = [admin EXCEPT ![i].pc = "done", ![i].calls = Append(@, denyRoute)]
    /\ UNCHANGED <<routerVars, flight, shared>>

InitAdmin ==
    /\ RouterAtRest
    /\ OthersIdle

NextAdmin ==
    \E i \in AdminRequests :
        \/ AdminEnter(i)
        \/ AdminResolves(i)
        \/ AdminRejects(i)
        \/ AdminThen(i)
        \/ AdminCatch(i)

SpecAdmin == InitAdmin /\ [][NextAdmin]_vars

\* the check of request i resolved with the boolean true
ResolvedTrue(i) == admin[i].answer = "true"

\* C13: the gate calls next() without an error only when
\* isPortalAdministrator() resolved with exactly true; for every other value
\* and for every rejection it calls next with the one fixed error, so two
\* requests that were refused have the same outcome.
C13_OnlyTrueAllows ==
    /\ \A i \in AdminRequests :
          admin[i].pc = "done" =>
              /\ admin[i].calls # <<>>
              /\ (\E k \in DOMAIN admin[i].calls : ~admin[i].calls[k].error)
                    <=> ResolvedTrue(i)
              /\ ~ResolvedTrue(i) =>
                    \A k \in DOMAIN admin[i].calls :
                        /\ admin[i].calls[k].error
                        /\ admin[i].calls[k].argument.inner = "null"
                        /\ admin[i].calls[k].argument.message =
                              "These aren't the droids you are looking for. You do not have permission to be here."
    /\ \A i, j \in AdminRequests :
          (/\ admin[i].pc = "done"
           /\ admin[j].pc = "done"
           /\ ~ResolvedTrue(i)
           /\ ~ResolvedTrue(j)) => admin[i].calls = admin[j].calls

C13_Witness ==
    /\ admin[1].pc = "done"
    /\ admin[2].pc = "done"
    /\ admin[1].answer = "false"
    /\ admin[2].answer = "timeout"
    /\ admin[1].calls = admin[2].calls

\* C19: whatever isPortalAdministrator() does, the gate calls next exactly
\* once: not before the promise settled, once when its callback has run, and
\* never a second time.
C19_NextExactlyOnce ==
    \A i \in AdminRequests :
        /\ Len(admin[i].calls) <= 1
        /\ admin[i].pc = "done" => Len(admin[i].calls) = 1
        /\ admin[i].pc # "done" => admin[i].calls = <<>>

C19_Witness ==
    /\ admin[1].pc = "done"
    /\ admin[1].answer = "true"
    /\ admin[1].calls = << Allow >>
    /\ admin[2].pc = "done"
    /\ admin[2].answer = "network"
    /\ Len(admin[2].calls) = 1

(* ---------------------------------------------------------------------- *)
(* Several requests in flight                                              *)
(* ---------------------------------------------------------------------- *)
\* The handlers give up the thread only where they wait: for the
\* authentication providers and for CreateRepository.  A request is followed
\* through the three stretches between those points; the stretches of
\* different requests interleave in any order.  The telemetry sink accepts
\* every event and the values handed to JSON.stringify are serialisable here.

\* the requests that are sent: POST /:org/repos with different versions,
\* organizations, headers and bodies; the last asks for an unsupported version
FlightRequests ==
    { [method |-> "POST", path |-> <<"/","a","c","m","e","/","r","e","p","o","s">>,
       query |-> [kind |-> "none", val |-> <<>>],
       headers |-> [k \in {"api-version", "authorization"} |->
                      IF k = "api-version" THEN hardcodedApiVersions[5] ELSE <<"h">>],
       body |-> [name |-> <<"b">>]],
      [method |-> "POST", path |-> <<"/","g","h","o","s","t","/","R","e","p","o","s">>,
       query |-> [kind |-> "string", val |-> hardcodedApiVersions[1]],
       headers |-> [name |-> <<"h">>],
       body |-> [access_token |-> <<"b">>, name |-> <<"b">>]],
      [method |-> "POST", path |-> <<"/","a","c","m","e","/","r","e","p","o","s">>,
       query |-> [kind |-> "none", val |-> <<>>],
       headers |-> [k \in {"api-version"} |-> UnsupportedVersion],
       body |-> EmptyObject] }

\* what the authentication providers and the directory answer for a request
FlightAnswers ==
    { [acc |-> {}, scopes |-> {},
       organizationScopes |-> [configured |-> FALSE, grants |-> {}], known |-> FALSE],
      [acc |-> {"apikey"}, scopes |-> {"news"},
       organizationScopes |-> [configured |-> TRUE, grants |-> {Star}], known |-> TRUE],
      [acc |-> {"apikey"}, scopes |-> {"createRepo"},
       organizationScopes |-> [configured |-> FALSE, grants |-> {}], known |-> TRUE],
      [acc |-> {"apikey"}, scopes |-> {"createRepo"},
       organizationScopes |-> [configured |-> TRUE, grants |-> {Acme}], known |-> TRUE],
      [acc |-> {"aad"}, scopes |-> {"createRepo"},
       organizationScopes |-> [configured |-> TRUE, grants |-> {Star}], known |-> TRUE],
      [acc |-> {"apikey"}, scopes |-> {"createRepo"},
       organizationScopes |-> [configured |-> TRUE, grants |-> {Star}], known |-> FALSE] }

\* how CreateRepository settles
FlightResult == [repository |-> "created", circular |-> FALSE]
FlightSettlements ==
    { [kind |-> "returned", circular |-> FALSE, error |-> TypeError] } \cup
    { [kind |-> "failed", circular |-> FALSE, error |-> e] :
        e \in { d \in DownstreamErrors : ~d.circular } }

\* the version gate reading the list as the process holds it
VersionVerdictOn(versions, r) ==
    LET v == EffectiveVersion(r) IN
    IF v.kind = "none" \/ v.val = <<>>
    THEN [ok |-> FALSE,
          err |-> jsonError("This endpoint requires that an API Version be provided.",
                            422, <<>>, "")]
    ELSE IF v.kind = "array"
    THEN [ok |-> FALSE, err |-> TypeError]
    ELSE IF toLowerCase(v.val) = toLowerCase(RetiredPreview)
    THEN [ok |-> FALSE,
          err |-> jsonError("This endpoint no longer supports the original preview version.",
                            422, versions[1], "")]
    ELSE IF indexOf(versions, toLowerCase(v.val)) < 0
    THEN [ok |-> FALSE,
          err |-> jsonError("This endpoint does not support the API version you provided at this time.",
                            422, <<>>, "")]
    ELSE [ok |-> TRUE, err |-> TypeError]

\* next(err): the request ends in the error handler with this error
Refused(err) == [kind |-> "error", status |-> 0, error |-> err]

\* from the arrival to the wait for the providers: the version gate
GateSegment(sh, f, r) ==
    LET v == VersionVerdictOn(sh.versions, r) IN
    IF v.ok
    THEN [f EXCEPT !.pc = "auth", !.req = r, !.apiVersion = EffectiveVersion(r).val]
    ELSE [f EXCEPT !.pc = "done", !.req = r, !.outcome = Refused(v.err)]

\* from the providers' answer to the wait for CreateRepository: the scope
\* check, the organization resolver and the head of the creation handler
AuthSegment(sh, f, ans) ==
    LET a  == supportMultipleAuthProviders(sh.providers, ans.acc)
        id == [provider |-> IF a.idx = 0 THEN "none" ELSE sh.providers[a.idx],
               scopes |-> ans.scopes, organizationScopes |-> ans.organizationScopes]
        v  == ResolverVerdict(id, ParamOrg(f.req.path), ans.known)
        g  == [f EXCEPT !.answers.authed = TRUE,
                        !.answers.acc = ans.acc,
                        !.answers.scopes = ans.scopes,
                        !.answers.organizationScopes = ans.organizationScopes,
                        !.answers.known = ans.known]
    IN  IF a.idx = 0
        THEN [g EXCEPT !.pc = "done",
                       !.outcome = Refused(jsonError("AuthenticationFailed", 401, <<>>, ""))]
        ELSE IF ~requireAadApiAuthorizedScope(CreateScopes, id)
        THEN [g EXCEPT !.pc = "done",
                       !.outcome = Refused(jsonError("ForbiddenScope", 401, <<>>, ""))]
        ELSE IF ~v.ok
        THEN [g EXCEPT !.pc = "done", !.outcome = Refused(v.err)]
        ELSE [g EXCEPT !.pc = "awaitCreate",
                       !.organization = v.handle,
                       !.events = <<Event("ApiRepoCreateRequest", HeaderSnapshot(f.req.headers))>>,
                       !.created = <<[organization |-> v.handle,
                                      logic |-> sh.hook,
                                      customContext |-> CreateContext(sh.hook),
                                      payload |-> SanitizedPayload(f.req.headers, f.req.body),
                                      entrypoint |-> "Api"]>>]

\* from the settlement of CreateRepository to the end of the handler;
\* convergedObject is the local of this call of the handler
SettleSegment(f, d) ==
    LET convergedObject == f.created[1].payload
        g == [f EXCEPT !.pc = "done", !.answers.settled = TRUE, !.answers.downstream = d]
    IN  IF d.kind = "returned"
        THEN [g EXCEPT !.events = Append(@,
                           Event("ApiRepoCreateRequestSuccess",
                                 [request |-> JSONstringify(convergedObject),
                                  response |-> JSONstringify(FlightResult)])),
                       !.outcome = [kind |-> "sent", status |-> 201, error |-> TypeError]]
        ELSE [g EXCEPT !.events = Append(@,
                           Event("ApiRepoCreateFailed", FailureData(convergedObject, d.error))),
                       !.outcome = Refused(d.error)]

\* a gate that adds a version it has refused to the list
FlightArriveRemembers(i) ==
    /\ flight[i].pc = "idle"
    /\ \E r \in FlightRequests :
         /\ flight' = [flight EXCEPT ![i] = GateSegment(shared, flight[i], r)]
         /\ shared' = [shared EXCEPT !.versions =
                          IF indexOf(@, toLowerCase(EffectiveVersion(r).val)) < 0
                          THEN Append(@, toLowerCase(EffectiveVersion(r).val))
                          ELSE @]
    /\ UNCHANGED <<routerVars, admin>>

\* a request arrives and passes through the version gate
FlightArrive(i) ==
    /\ flight[i].pc = "idle"
    /\ \E r \in FlightRequests :
         flight' = [flight EXCEPT ![i] = GateSegment(shared, flight[i], r)]
    /\ UNCHANGED <<routerVars, admin, shared>>

\* the providers answer
FlightAuthSettles(i) ==
    /\ flight[i].pc = "auth"
    /\ \E ans \in FlightAnswers :
         flight' = [flight EXCEPT ![i] = AuthSegment(shared, flight[i], ans)]
    /\ UNCHANGED <<routerVars, admin, shared>>

\* CreateRepository settles
FlightCreateSettles(i) ==
    /\ flight[i].pc = "awaitCreate"
    /\ \E d \in FlightSettlements :
         flight' = [flight EXCEPT ![i] = SettleSegment(flight[i], d)]
    /\ UNCHANGED <<routerVars, admin, shared>>

InitFlight ==
    /\ RouterAtRest
    /\ admin = [i \in AdminRequests |-> AdminNew]
    /\ flight = [i \in InFlight |-> FlightNew]
    /\ shared \in { SharedAtStartup(h) : h \in Hooks }

NextFlight ==
    \E i \in InFlight :
        \/ FlightArrive(i)
        \/ FlightAuthSettles(i)
        \/ FlightCreateSettles(i)

SpecFlight == InitFlight /\ [][NextFlight]_vars

\* what a caller, CreateRepository and the telemetry sink see of a request
Observable(f) ==
    [apiVersion |-> f.apiVersion, organization |-> f.organization,
     created |-> f.created, events |-> f.events, outcome |-> f.outcome]

\* the request of f handled with nothing else in the process, as far as f
\* has got, with the answers f was given
Alone(hook, f) ==
    LET sh == SharedAtStartup(hook)
        s1 == GateSegment(sh, FlightNew, f.req)
        s2 == AuthSegment(sh, s1, f.answers)
        s3 == SettleSegment(s2, f.answers.downstream)
    IN  IF f.pc = "idle" THEN FlightNew
        ELSE IF s1.pc = "done" \/ ~f.answers.authed THEN s1
        ELSE IF s2.pc = "done" \/ ~f.answers.settled THEN s2
        ELSE s3

====
